---- MODULE Spec2Model ----
(***************************************************************************)
(* Model of the calendar-event API of backend/app.py: the validators, the  *)
(* events table and the request handlers (list, get, create, update,       *)
(* delete, cleanup).  Text values are sequences of one-character strings,  *)
(* so that trimming, word splitting, date parsing and the TEXT comparison  *)
(* of the store are computed as the code computes them.                    *)
(***************************************************************************)
EXTENDS Integers, Sequences, FiniteSets, TLC

VARIABLES events, seq, today, req, resp, before, assigned, procs

vars == <<events, seq, today, req, resp, before, assigned, procs>>

(***************************************************************************)
(* Bounds of the model.                                                    *)
(***************************************************************************)
\* number of rows ever inserted (value of the AUTOINCREMENT counter)
MaxId == 2
\* number of midnights that pass during a run
MaxTicks == 1
\* number of requests handled concurrently
NProcs == 3

(***************************************************************************)
(* Characters and text.                                                    *)
(***************************************************************************)
Digits == {"0", "1", "2", "3", "4", "5", "6", "7", "8", "9"}

Letters ==
  {"a", "b", "c", "d", "e", "f", "g", "h", "i", "j", "k", "l", "m",
   "n", "o", "p", "q", "r", "s", "t", "u", "v", "w", "x", "y", "z",
   "A", "B", "C", "D", "E", "F", "G", "H", "I", "J", "K", "L", "M",
   "N", "O", "P", "Q", "R", "S", "T", "U", "V", "W", "X", "Y", "Z"}

Whitespace == {" ", "\t", "\n"}

\* str.isalpha() of one character
IsAlpha(c) == c \in Letters

\* str.isspace() of one character
IsSpace(c) == c \in Whitespace

DigitVal(c) ==
  CASE c = "0" -> 0 [] c = "1" -> 1 [] c = "2" -> 2 [] c = "3" -> 3 [] c = "4" -> 4
    [] c = "5" -> 5 [] c = "6" -> 6 [] c = "7" -> 7 [] c = "8" -> 8 [] c = "9" -> 9

DigitChar(n) ==
  CASE n = 0 -> "0" [] n = 1 -> "1" [] n = 2 -> "2" [] n = 3 -> "3" [] n = 4 -> "4"
    [] n = 5 -> "5" [] n = 6 -> "6" [] n = 7 -> "7" [] n = 8 -> "8" [] n = 9 -> "9"

\* byte value of the characters that occur in stored dates and month filters
Ord(c) == IF c = "-" THEN 45 ELSE IF c = "/" THEN 47 ELSE 48 + DigitVal(c)

RECURSIVE LStrip(_)
LStrip(s) == IF s # <<>> /\ IsSpace(Head(s)) THEN LStrip(Tail(s)) ELSE s

RECURSIVE RStrip(_)
RStrip(s) ==
  IF s # <<>> /\ IsSpace(s[Len(s)]) THEN RStrip(SubSeq(s, 1, Len(s) - 1)) ELSE s

\* str.strip()
Strip(s) == RStrip(LStrip(s))

\* len(s[i:].split()): the number of maximal runs of non-whitespace from i on
RECURSIVE SplitFrom(_, _)
SplitFrom(s, i) ==
  IF \A j \in i..Len(s) : IsSpace(s[j]) THEN 0
  ELSE LET start == CHOOSE j \in i..Len(s) :
                      ~IsSpace(s[j]) /\ \A k \in i..(j - 1) : IsSpace(s[k])
           stop  == CHOOSE j \in (start + 1)..(Len(s) + 1) :
                      /\ j = Len(s) + 1 \/ IsSpace(s[j])
                      /\ \A k \in start..(j - 1) : ~IsSpace(s[k])
       IN  1 + SplitFrom(s, stop)

\* len(str.split())
WordCount(s) == SplitFrom(s, 1)

\* TEXT comparison of the store (BINARY collation): a < b
RECURSIVE TextLess(_, _)
TextLess(a, b) ==
  IF b = <<>> THEN FALSE
  ELSE IF a = <<>> THEN TRUE
  ELSE IF Head(a) # Head(b) THEN Ord(Head(a)) < Ord(Head(b))
  ELSE TextLess(Tail(a), Tail(b))

\* date LIKE 'prefix%' for a prefix without wildcard characters
StartsWith(s, prefix) ==
  Len(s) >= Len(prefix) /\ SubSeq(s, 1, Len(prefix)) = prefix

(***************************************************************************)
(* Calendar dates.  A datetime at midnight is a record [y, m, d].          *)
(***************************************************************************)
IsLeap(y) == (y % 4 = 0 /\ y % 100 # 0) \/ y % 400 = 0

DaysInMonth(y, m) ==
  IF m = 2 THEN (IF IsLeap(y) THEN 29 ELSE 28)
  ELSE IF m \in {4, 6, 9, 11} THEN 30 ELSE 31

\* datetime comparison a < b at day granularity
DateLess(a, b) ==
  \/ a.y < b.y
  \/ a.y = b.y /\ a.m < b.m
  \/ a.y = b.y /\ a.m = b.m /\ a.d < b.d

\* the calendar day after dt
NextDay(dt) ==
  IF dt.d < DaysInMonth(dt.y, dt.m) THEN [dt EXCEPT !.d = dt.d + 1]
  ELSE IF dt.m < 12 THEN [y |-> dt.y, m |-> dt.m + 1, d |-> 1]
  ELSE [y |-> dt.y + 1, m |-> 1, d |-> 1]

Pad2(n) == <<DigitChar(n \div 10), DigitChar(n % 10)>>

Pad4(n) ==
  <<DigitChar(n \div 1000), DigitChar((n \div 100) % 10),
    DigitChar((n \div 10) % 10), DigitChar(n % 10)>>

\* strftime("%Y-%m-%d")
Strftime(dt) == Pad4(dt.y) \o <<"-">> \o Pad2(dt.m) \o <<"-">> \o Pad2(dt.d)

\* the text of s split at every "/"
RECURSIVE SplitSlash(_)
SplitSlash(s) ==
  IF s = <<>> THEN << <<>> >>
  ELSE LET rest == SplitSlash(Tail(s))
       IN  IF Head(s) = "/" THEN << <<>> >> \o rest
           ELSE << <<Head(s)>> \o Head(rest) >> \o Tail(rest)

AllDigits(s) == \A i \in 1..Len(s) : s[i] \in Digits

RECURSIVE Number(_)
Number(s) == IF s = <<>> THEN 0 ELSE 10 * Number(SubSeq(s, 1, Len(s) - 1)) + DigitVal(s[Len(s)])

\* the strptime directive %d: 3[0-1] | [1-2]\d | 0[1-9] | [1-9] | " "[1-9]
MatchDay(s) ==
  \/ Len(s) = 2 /\ AllDigits(s) /\ Number(s) \in 1..31
  \/ Len(s) = 1 /\ AllDigits(s) /\ Number(s) \in 1..9
  \/ Len(s) = 2 /\ s[1] = " " /\ s[2] \in Digits /\ DigitVal(s[2]) \in 1..9

\* the strptime directive %m: 1[0-2] | 0[1-9] | [1-9]
MatchMonth(s) ==
  \/ Len(s) = 2 /\ AllDigits(s) /\ Number(s) \in 1..12
  \/ Len(s) = 1 /\ AllDigits(s) /\ Number(s) \in 1..9

\* the strptime directive %Y: \d\d\d\d, and datetime's MINYEAR
MatchYear(s) == Len(s) = 4 /\ AllDigits(s) /\ Number(s) >= 1

NoDate == [y |-> 0, m |-> 0, d |-> 0]

\* datetime.strptime(date_str, "%d/%m/%Y"); NoDate stands for ValueError
Strptime(s) ==
  LET parts == SplitSlash(s)
  IN  IF Len(parts) = 3 /\ MatchDay(parts[1]) /\ MatchMonth(parts[2]) /\ MatchYear(parts[3])
      THEN LET dd == Number(IF parts[1][1] = " " THEN Tail(parts[1]) ELSE parts[1])
               mm == Number(parts[2])
               yy == Number(parts[3])
           IN  IF dd <= DaysInMonth(yy, mm) THEN [y |-> yy, m |-> mm, d |-> dd] ELSE NoDate
      ELSE NoDate

(***************************************************************************)
(* Validators.  Each returns [ok, val]: val is the error on failure.       *)
(***************************************************************************)
ErrTitleShort == "Title must be at least 5 characters long"
ErrTitleLetter == "Title must contain at least one letter"
ErrPastDate == "Cannot add events to past dates. Please select today or a future date."
ErrDateFormat == "Date must be in DD/MM/YYYY format"
ErrNotesLong == "Notes must be maximum 23 words"
ErrNoData == "No data provided"
ErrNoFields == "No fields to update"
ErrNotFound == "Event not found"

MinTitleLen == 5

MaxNotesWords == 23

\* mutant of validate_title: the length taken without strip()
validate_title_nostrip(title) ==
  IF Len(title) < MinTitleLen THEN [ok |-> FALSE, val |-> ErrTitleShort]
  ELSE IF ~(\E i \in 1..Len(title) : IsAlpha(title[i])) THEN [ok |-> FALSE, val |-> ErrTitleLetter]
  ELSE [ok |-> TRUE, val |-> ""]

validate_title(title) ==
  IF Len(Strip(title)) < MinTitleLen THEN [ok |-> FALSE, val |-> ErrTitleShort]
  ELSE IF ~(\E i \in 1..Len(title) : IsAlpha(title[i])) THEN [ok |-> FALSE, val |-> ErrTitleLetter]
  ELSE [ok |-> TRUE, val |-> ""]

\* mutant of validate_date: the comparison with today left out
validate_date_nopast(date_str, now) ==
  LET date_obj == Strptime(date_str)
  IN  IF date_obj = NoDate THEN [ok |-> FALSE, val |-> ErrDateFormat]
      ELSE [ok |-> TRUE, val |-> Strftime(date_obj)]

validate_date(date_str, now) ==
  LET date_obj == Strptime(date_str)
  IN  IF date_obj = NoDate THEN [ok |-> FALSE, val |-> ErrDateFormat]
      ELSE IF DateLess(date_obj, now) THEN [ok |-> FALSE, val |-> ErrPastDate]
      ELSE [ok |-> TRUE, val |-> Strftime(date_obj)]

\* mutant of validate_notes: word_count >= 23 rejected
validate_notes_ge(notes) ==
  IF notes = <<>> \/ Strip(notes) = <<>> THEN [ok |-> TRUE, val |-> ""]
  ELSE IF WordCount(Strip(notes)) >= MaxNotesWords THEN [ok |-> FALSE, val |-> ErrNotesLong]
  ELSE [ok |-> TRUE, val |-> ""]

validate_notes(notes) ==
  IF notes = <<>> \/ Strip(notes) = <<>> THEN [ok |-> TRUE, val |-> ""]
  ELSE IF WordCount(Strip(notes)) > MaxNotesWords THEN [ok |-> FALSE, val |-> ErrNotesLong]
  ELSE [ok |-> TRUE, val |-> ""]

(***************************************************************************)
(* Request inputs.  A JSON body is a function from the keys it carries to  *)
(* their text; a key that is omitted is not in its domain.                 *)
(***************************************************************************)
Fields == <<"title", "date", "location", "notes">>

Absent == <<"absent">>

RECURSIVE Repeat(_, _)
Repeat(s, n) == IF n = 0 THEN <<>> ELSE s \o Repeat(s, n - 1)

TitleLunch == <<"L", "u", "n", "c", "h">>
TitleDemo == <<"D", "e", "m", "o", " ", "2">>
TitlePadded == <<"a", "b", "c", " ", " ">>
TitleDigits == <<"1", "2", "3", "4", "5">>

DateJun29 == <<"2", "9", "/", "0", "6", "/", "2", "0", "2", "5">>
DateJun30 == <<"3", "0", "/", "0", "6", "/", "2", "0", "2", "5">>
DateJun31 == <<"3", "1", "/", "0", "6", "/", "2", "0", "2", "5">>
DateJul01 == <<"0", "1", "/", "0", "7", "/", "2", "0", "2", "5">>
DateJul1 == <<"1", "/", "7", "/", "2", "0", "2", "5">>

LocHall == <<"H", "a", "l", "l">>

NotesTwo == <<"a", " ", "b">>
NotesTooMany == Repeat(<<"w", " ">>, MaxNotesWords + 1)

MonthJun == <<"2", "0", "2", "5", "-", "0", "6">>
MonthJul == <<"2", "0", "2", "5", "-", "0", "7">>

\* the JSON body with the keys whose text is not Absent
MkData(t, d, l, n) ==
  LET v == [f \in {"title", "date", "location", "notes"} |->
              CASE f = "title" -> t [] f = "date" -> d [] f = "location" -> l [] f = "notes" -> n]
  IN  [f \in {g \in DOMAIN v : v[g] # Absent} |-> v[f]]

NoData == [f \in {} |-> <<>>]

\* valid bodies, and bodies whose title, date or notes (or several) are invalid
CreateInputs ==
  {MkData(TitleLunch, d, ln[1], ln[2]) :
     d \in {DateJun30, DateJul1}, ln \in {<<LocHall, NotesTwo>>, <<Absent, Absent>>}}
  \cup {MkData(t, d, LocHall, n) :
          t \in {TitleLunch, TitleDigits}, d \in {DateJun31, DateJul1}, n \in {NotesTwo, NotesTooMany}}
  \cup {NoData,
        MkData(Absent, DateJul1, LocHall, Absent),
        MkData(TitlePadded, Absent, Absent, NotesTooMany),
        MkData(TitleLunch, Absent, Absent, Absent),
        MkData(TitleLunch, DateJun30, Absent, NotesTooMany)}

\* valid bodies with no field, title, date, notes, location and notes, title
\* and date, and all four fields, and bodies with one or several invalid fields
UpdateInputs ==
  {NoData,
   MkData(TitleDemo, Absent, Absent, Absent),
   MkData(Absent, DateJul01, Absent, Absent),
   MkData(Absent, Absent, Absent, NotesTwo),
   MkData(Absent, Absent, LocHall, NotesTwo),
   MkData(TitleDemo, DateJul01, Absent, Absent),
   MkData(TitleDemo, DateJul01, LocHall, NotesTwo)}
  \cup {MkData(TitleDigits, Absent, Absent, Absent),
        MkData(Absent, DateJun29, Absent, Absent),
        MkData(Absent, Absent, Absent, NotesTooMany),
        MkData(TitleDigits, DateJun29, Absent, NotesTooMany),
        MkData(TitleDigits, DateJul01, LocHall, NotesTwo),
        MkData(TitleDemo, DateJun29, LocHall, NotesTwo),
        MkData(TitleDemo, DateJul01, LocHall, NotesTooMany),
        MkData(TitleDemo, DateJun31, Absent, Absent)}

\* the month query parameter; <<>> is a request without it
MonthInputs == {<<>>, MonthJun, MonthJul}

\* ids a request may name: an id not yet assigned, or deleted, names no row
IdInputs == 1..MaxId

\* the day the server starts
StartDay == [y |-> 2025, m |-> 6, d |-> 30]

RECURSIVE DayAfter(_)
DayAfter(k) == IF k = 0 THEN StartDay ELSE NextDay(DayAfter(k - 1))

(***************************************************************************)
(* The events table and the handlers.  A handler is an operator from the   *)
(* table (and the clock) to the table it leaves and the response it sends. *)
(***************************************************************************)
\* data.get(key, "")
Get(data, key) == IF key \in DOMAIN data THEN data[key] ELSE <<>>

Request(op, id, data, month) == [op |-> op, id |-> id, data |-> data, month |-> month]

NoRequest == Request("none", 0, NoData, <<>>)

\* a response: HTTP status, error message, and the rows of the JSON body
Response(status, error, body) == [status |-> status, error |-> error, body |-> body]

NoResponse == Response(0, "", <<>>)

\* SELECT * FROM events WHERE id = ?
SelectById(rows, id) == {r \in rows : r.id = id}

\* fetchone()
FetchOne(rows) == CHOOSE r \in rows : TRUE

\* mutant of cleanup_past_events: DELETE ... WHERE date <= today
cleanup_past_events_inclusive(rows, now) == {r \in rows : TextLess(Strftime(now), r.date)}

\* mutant of cleanup_past_events: today formatted as DD/MM/YYYY
cleanup_past_events_dmy(rows, now) ==
  {r \in rows :
     ~TextLess(r.date, Pad2(now.d) \o <<"/">> \o Pad2(now.m) \o <<"/">> \o Pad4(now.y))}

\* DELETE FROM events WHERE date < today
cleanup_past_events(rows, now) == {r \in rows : ~TextLess(r.date, Strftime(now))}

\* the results ORDER BY date may deliver: rows with equal dates in any order
OrderByDate(rows) ==
  LET n == Cardinality(rows)
  IN  {s \in [1..n -> rows] :
         /\ \A i, j \in 1..n : i # j => s[i] # s[j]
         /\ \A i, j \in 1..n : i < j => ~TextLess(s[j].date, s[i].date)}

\* mutant of get_events: the read without the purge
get_events_noclean(rows, now, month) ==
  LET sel == IF month # <<>> THEN {r \in rows : StartsWith(r.date, month)} ELSE rows
  IN  {[events |-> rows, resp |-> Response(200, "", body)] : body \in OrderByDate(sel)}

\* mutant of get_events: the month parameter ignored
get_events_nofilter(rows, now, month) ==
  LET kept == cleanup_past_events(rows, now)
  IN  {[events |-> kept, resp |-> Response(200, "", body)] : body \in OrderByDate(kept)}

\* GET /api/events: the outcomes the handler may produce
get_events(rows, now, month) ==
  LET kept == cleanup_past_events(rows, now)
      sel == IF month # <<>> THEN {r \in kept : StartsWith(r.date, month)} ELSE kept
  IN  {[events |-> kept, resp |-> Response(200, "", body)] : body \in OrderByDate(sel)}

\* GET /api/events/<id>
get_event(rows, event_id) ==
  LET row == SelectById(rows, event_id)
  IN  IF row # {} THEN Response(200, "", <<FetchOne(row)>>)
      ELSE Response(404, ErrNotFound, <<>>)

\* POST /api/events/cleanup
cleanup(rows, now) ==
  [events |-> cleanup_past_events(rows, now), resp |-> Response(200, "", <<>>)]

\* mutant of delete_event: DELETE without its WHERE clause
delete_event_all(rows, event_id) ==
  LET row == SelectById(rows, event_id)
  IN  IF row = {} THEN [events |-> rows, resp |-> Response(404, ErrNotFound, <<>>)]
      ELSE [events |-> {}, resp |-> Response(200, "", <<FetchOne(row)>>)]

\* DELETE /api/events/<id>
delete_event(rows, event_id) ==
  LET row == SelectById(rows, event_id)
  IN  IF row = {} THEN [events |-> rows, resp |-> Response(404, ErrNotFound, <<>>)]
      ELSE [events |-> {r \in rows : r.id # event_id},
            resp |-> Response(200, "", <<FetchOne(row)>>)]

\* mutant of InsertedRow: the date stored as the client sent it
InsertedRow_rawdate(sq, now, data, date_formatted) ==
  [id |-> sq + 1,
   title |-> data["title"],
   date |-> data["date"],
   location |-> Get(data, "location"),
   notes |-> Get(data, "notes"),
   created_at |-> Strftime(now)]

\* INSERT INTO events (title, date, location, notes): the row the store adds
InsertedRow(sq, now, data, date_formatted) ==
  [id |-> sq + 1,
   title |-> data["title"],
   date |-> date_formatted,
   location |-> Get(data, "location"),
   notes |-> Get(data, "notes"),
   created_at |-> Strftime(now)]

\* mutant of add_event: the id taken from the largest rowid in the table
\* (INTEGER PRIMARY KEY without AUTOINCREMENT)
add_event_rowid(rows, sq, now, data) ==
  LET vt == validate_title(Get(data, "title"))
      vd == validate_date(Get(data, "date"), now)
      vn == validate_notes(Get(data, "notes"))
      checkNotes == "notes" \in DOMAIN data /\ data["notes"] # <<>>
      Fail(msg) == [events |-> rows, seq |-> sq, resp |-> Response(400, msg, <<>>)]
      rowid == IF rows = {} THEN 1
               ELSE 1 + (CHOOSE n \in {r.id : r \in rows} : \A r \in rows : r.id <= n)
  IN  IF DOMAIN data = {} THEN Fail(ErrNoData)
      ELSE IF ~vt.ok THEN Fail(vt.val)
      ELSE IF ~vd.ok THEN Fail(vd.val)
      ELSE IF checkNotes /\ ~vn.ok THEN Fail(vn.val)
      ELSE LET inserted == rows \cup {[id |-> rowid, title |-> data["title"], date |-> vd.val,
                                        location |-> Get(data, "location"),
                                        notes |-> Get(data, "notes"),
                                        created_at |-> Strftime(now)]}
           IN  [events |-> inserted, seq |-> sq + 1,
                resp |-> Response(200, "", <<FetchOne(SelectById(inserted, rowid))>>)]

\* mutant of add_event: the date validated before the title
add_event_date_first(rows, sq, now, data) ==
  LET vt == validate_title(Get(data, "title"))
      vd == validate_date(Get(data, "date"), now)
      vn == validate_notes(Get(data, "notes"))
      checkNotes == "notes" \in DOMAIN data /\ data["notes"] # <<>>
      Fail(msg) == [events |-> rows, seq |-> sq, resp |-> Response(400, msg, <<>>)]
  IN  IF DOMAIN data = {} THEN Fail(ErrNoData)
      ELSE IF ~vd.ok THEN Fail(vd.val)
      ELSE IF ~vt.ok THEN Fail(vt.val)
      ELSE IF checkNotes /\ ~vn.ok THEN Fail(vn.val)
      ELSE LET inserted == rows \cup {[id |-> sq + 1, title |-> data["title"], date |-> vd.val,
                                        location |-> Get(data, "location"),
                                        notes |-> Get(data, "notes"),
                                        created_at |-> Strftime(now)]}
           IN  [events |-> inserted, seq |-> sq + 1,
                resp |-> Response(200, "", <<FetchOne(SelectById(inserted, sq + 1))>>)]

\* POST /api/events
add_event(rows, sq, now, data) ==
  LET vt == validate_title(Get(data, "title"))
      vd == validate_date(Get(data, "date"), now)
      vn == validate_notes(Get(data, "notes"))
      checkNotes == "notes" \in DOMAIN data /\ data["notes"] # <<>>
      Fail(msg) == [events |-> rows, seq |-> sq, resp |-> Response(400, msg, <<>>)]
  IN  IF DOMAIN data = {} THEN Fail(ErrNoData)
      ELSE IF ~vt.ok THEN Fail(vt.val)
      ELSE IF ~vd.ok THEN Fail(vd.val)
      ELSE IF checkNotes /\ ~vn.ok THEN Fail(vn.val)
      ELSE LET inserted == rows \cup {InsertedRow(sq, now, data, vd.val)}
           IN  [events |-> inserted, seq |-> sq + 1,
                resp |-> Response(200, "", <<FetchOne(SelectById(inserted, sq + 1))>>)]

\* the columns the UPDATE statement sets: the keys of data among Fields
UpdateFields(data) == {Fields[i] : i \in 1..Len(Fields)} \cap DOMAIN data

\* mutant of UpdateRows: the SET list cut after its first column
UpdateRows_first(rows, event_id, data) ==
  LET present == {i \in 1..Len(Fields) : Fields[i] \in DOMAIN data}
      first == {Fields[i] : i \in {j \in present : \A k \in present : j <= k}}
  IN  {IF r.id = event_id
       THEN [c \in DOMAIN r |-> IF c \in first THEN data[c] ELSE r[c]]
       ELSE r : r \in rows}

\* mutant of UpdateRows: UPDATE without its WHERE clause
UpdateRows_all(rows, event_id, data) ==
  {[c \in DOMAIN r |-> IF c \in {"title", "date", "location", "notes"} \cap DOMAIN data
                       THEN data[c] ELSE r[c]] : r \in rows}

\* mutant of UpdateRows: every column set, an omitted one to the empty text
UpdateRows_blank(rows, event_id, data) ==
  {IF r.id = event_id
   THEN [c \in DOMAIN r |-> IF c \in {"title", "date", "location", "notes"}
                            THEN (IF c \in DOMAIN data THEN data[c] ELSE <<>>) ELSE r[c]]
   ELSE r : r \in rows}

\* UPDATE events SET <update_fields> WHERE id = ?
UpdateRows(rows, event_id, data) ==
  {IF r.id = event_id
   THEN [c \in DOMAIN r |-> IF c \in UpdateFields(data) THEN data[c] ELSE r[c]]
   ELSE r : r \in rows}

\* mutant of update_event: the title written without validate_title
update_event_notitlecheck(rows, now, event_id, data) ==
  LET vd == validate_date(Get(data, "date"), now)
      vn == validate_notes(Get(data, "notes"))
      checkNotes == "notes" \in DOMAIN data /\ data["notes"] # <<>>
      canon == IF "date" \in DOMAIN data /\ vd.ok THEN [data EXCEPT !["date"] = vd.val] ELSE data
      Fail(msg) == [events |-> rows, resp |-> Response(400, msg, <<>>)]
  IN  IF "date" \in DOMAIN data /\ ~vd.ok THEN Fail(vd.val)
      ELSE IF checkNotes /\ ~vn.ok THEN Fail(vn.val)
      ELSE IF DOMAIN canon = {} THEN Fail(ErrNoFields)
      ELSE LET updated == {IF r.id = event_id
                           THEN [c \in DOMAIN r |-> IF c \in DOMAIN canon THEN canon[c] ELSE r[c]]
                           ELSE r : r \in rows}
               row == SelectById(updated, event_id)
           IN  [events |-> updated,
                resp |-> IF row # {} THEN Response(200, "", <<FetchOne(row)>>)
                         ELSE Response(404, ErrNotFound, <<>>)]

\* mutant of update_event: title, date and location written before the notes are validated
update_event_partial(rows, now, event_id, data) ==
  LET vt == validate_title(Get(data, "title"))
      vd == validate_date(Get(data, "date"), now)
      vn == validate_notes(Get(data, "notes"))
      checkNotes == "notes" \in DOMAIN data /\ data["notes"] # <<>>
      canon == IF "date" \in DOMAIN data /\ vd.ok THEN [data EXCEPT !["date"] = vd.val] ELSE data
      early == [f \in DOMAIN canon \ {"notes"} |-> canon[f]]
      written == {IF r.id = event_id
                  THEN [c \in DOMAIN r |-> IF c \in DOMAIN early THEN early[c] ELSE r[c]]
                  ELSE r : r \in rows}
      Fail(msg) == [events |-> rows, resp |-> Response(400, msg, <<>>)]
  IN  IF "title" \in DOMAIN data /\ ~vt.ok THEN Fail(vt.val)
      ELSE IF "date" \in DOMAIN data /\ ~vd.ok THEN Fail(vd.val)
      ELSE IF checkNotes /\ ~vn.ok THEN [events |-> written, resp |-> Response(400, vn.val, <<>>)]
      ELSE IF DOMAIN canon = {} THEN Fail(ErrNoFields)
      ELSE LET updated == {IF r.id = event_id
                           THEN [c \in DOMAIN r |-> IF c \in DOMAIN canon THEN canon[c] ELSE r[c]]
                           ELSE r : r \in rows}
               row == SelectById(updated, event_id)
           IN  [events |-> updated,
                resp |-> IF row # {} THEN Response(200, "", <<FetchOne(row)>>)
                         ELSE Response(404, ErrNotFound, <<>>)]

\* PUT /api/events/<id>
update_event(rows, now, event_id, data) ==
  LET vt == validate_title(Get(data, "title"))
      vd == validate_date(Get(data, "date"), now)
      vn == validate_notes(Get(data, "notes"))
      checkNotes == "notes" \in DOMAIN data /\ data["notes"] # <<>>
      canon == IF "date" \in DOMAIN data /\ vd.ok THEN [data EXCEPT !["date"] = vd.val] ELSE data
      Fail(msg) == [events |-> rows, resp |-> Response(400, msg, <<>>)]
  IN  IF "title" \in DOMAIN data /\ ~vt.ok THEN Fail(vt.val)
      ELSE IF "date" \in DOMAIN data /\ ~vd.ok THEN Fail(vd.val)
      ELSE IF checkNotes /\ ~vn.ok THEN Fail(vn.val)
      ELSE IF UpdateFields(canon) = {} THEN Fail(ErrNoFields)
      ELSE LET updated == UpdateRows(rows, event_id, canon)
               row == SelectById(updated, event_id)
           IN  [events |-> updated,
                resp |-> IF row # {} THEN Response(200, "", <<FetchOne(row)>>)
                         ELSE Response(404, ErrNotFound, <<>>)]

(***************************************************************************)
(* The server.  Requests are handled one at a time: req and resp are the   *)
(* exchange in progress, before is the table as the request found it.      *)
(***************************************************************************)
Idle == req = NoRequest

Init ==
  /\ events = {}
  /\ seq = 0
  /\ today = StartDay
  /\ req = NoRequest
  /\ resp = NoResponse
  /\ before = {}
  /\ assigned = {}
  /\ procs = <<>>

\* midnight passes
Tick ==
  /\ Idle
  /\ \E k \in 0..(MaxTicks - 1) : today = DayAfter(k)
  /\ today' = NextDay(today)
  /\ UNCHANGED <<events, seq, req, resp, before, assigned, procs>>

ListEvents ==
  /\ Idle
  /\ \E month \in MonthInputs : \E out \in get_events(events, today, month) :
       /\ req' = Request("list", 0, NoData, month)
       /\ events' = out.events
       /\ resp' = out.resp
  /\ before' = events
  /\ UNCHANGED <<seq, today, assigned, procs>>

GetEvent ==
  /\ Idle
  /\ \E id \in IdInputs :
       /\ req' = Request("get", id, NoData, <<>>)
       /\ resp' = get_event(events, id)
  /\ before' = events
  /\ UNCHANGED <<events, seq, today, assigned, procs>>

AddEvent ==
  /\ Idle
  /\ \E data \in CreateInputs :
       LET out == add_event(events, seq, today, data)
       IN  /\ out.seq <= MaxId
           /\ req' = Request("create", 0, data, <<>>)
           /\ events' = out.events
           /\ seq' = out.seq
           /\ resp' = out.resp
  /\ before' = events
  /\ UNCHANGED <<today, assigned, procs>>

UpdateEvent ==
  /\ Idle
  /\ \E id \in IdInputs, data \in UpdateInputs :
       LET out == update_event(events, today, id, data)
       IN  /\ req' = Request("update", id, data, <<>>)
           /\ events' = out.events
           /\ resp' = out.resp
  /\ before' = events
  /\ UNCHANGED <<seq, today, assigned, procs>>

DeleteEvent ==
  /\ Idle
  /\ \E id \in IdInputs :
       LET out == delete_event(events, id)
       IN  /\ req' = Request("delete", id, NoData, <<>>)
           /\ events' = out.events
           /\ resp' = out.resp
  /\ before' = events
  /\ UNCHANGED <<seq, today, assigned, procs>>

Cleanup ==
  /\ Idle
  /\ LET out == cleanup(events, today)
     IN  /\ req' = Request("cleanup", 0, NoData, <<>>)
         /\ events' = out.events
         /\ resp' = out.resp
  /\ before' = events
  /\ UNCHANGED <<seq, today, assigned, procs>>

\* the response is sent and the exchange ends; assigned collects the ids
\* the table has held in the exchanges that have ended
after_request ==
  /\ ~Idle
  /\ req' = NoRequest
  /\ resp' = NoResponse
  /\ before' = {}
  /\ assigned' = assigned \cup {r.id : r \in events}
  /\ UNCHANGED <<events, seq, today, procs>>

Next ==
  \/ Tick
  \/ ListEvents
  \/ GetEvent
  \/ AddEvent
  \/ UpdateEvent
  \/ DeleteEvent
  \/ Cleanup
  \/ after_request

Spec == Init /\ [][Next]_vars

(***************************************************************************)
(* Vocabulary of the properties.                                           *)
(***************************************************************************)
\* the calendar day a stored YYYY-MM-DD text denotes
CanonToDate(s) ==
  [y |-> 1000 * DigitVal(s[1]) + 100 * DigitVal(s[2]) + 10 * DigitVal(s[3]) + DigitVal(s[4]),
   m |-> 10 * DigitVal(s[6]) + DigitVal(s[7]),
   d |-> 10 * DigitVal(s[9]) + DigitVal(s[10])]

\* the row's day is strictly before the current day
IsPast(r) == DateLess(CanonToDate(r.date), today)

Ids(rows) == {r.id : r \in rows}

BodyRows == {resp.body[i] : i \in 1..Len(resp.body)}

TitleBad(data) == "title" \in DOMAIN data /\ ~validate_title(data["title"]).ok

DateBad(data) == "date" \in DOMAIN data /\ ~validate_date(data["date"], today).ok

NotesBad(data) == "notes" \in DOMAIN data /\ ~validate_notes(data["notes"]).ok

ValidationErrors == {ErrTitleShort, ErrTitleLetter, ErrPastDate, ErrDateFormat, ErrNotesLong}

\* C1: every event a list call returns is dated on or after the day of the
\* call: the call purges the events dated before that day and reads the
\* table the purge left.
C1_ListFreeOfPast ==
  req.op = "list" =>
    /\ \A r \in BodyRows : ~IsPast(r) /\ r \in events
    /\ \A r \in events : ~IsPast(r)

\* a list call made while the table held a past event and a current one
C1_Witness ==
  /\ req.op = "list"
  /\ \E r \in before : IsPast(r)
  /\ Len(resp.body) >= 1

\* C2: after a cleanup no stored event is dated before the current day, and
\* a second cleanup run at once leaves the table exactly as it is.
C2_CleanupIdempotent ==
  req.op = "cleanup" =>
    /\ \A r \in events : ~IsPast(r)
    /\ cleanup(events, today).events = events

\* a cleanup that removed a past event and kept another event
C2_Witness ==
  /\ req.op = "cleanup"
  /\ events # before
  /\ events # {}

\* C3: an update of an existing id with an invalid title, date or notes is
\* answered with a validation error and leaves the table as it was, also
\* when other fields of the request are valid.
C3_InvalidUpdateWritesNothing ==
  (/\ req.op = "update"
   /\ req.id \in Ids(before)
   /\ TitleBad(req.data) \/ DateBad(req.data) \/ NotesBad(req.data))
  => /\ resp.status = 400
     /\ resp.error \in ValidationErrors
     /\ events = before

\* an update with too many words of notes and a valid new title and date
C3_Witness ==
  /\ req.op = "update"
  /\ req.id \in Ids(before)
  /\ NotesBad(req.data)
  /\ "title" \in DOMAIN req.data /\ ~TitleBad(req.data)
  /\ "date" \in DOMAIN req.data /\ ~DateBad(req.data)
  /\ \E r \in before : r.id = req.id /\ r.title # req.data["title"]
  /\ resp.status = 400

\* C4 as stated: an update of an id that names no row, all of whose present
\* fields are valid, is answered NotFound and leaves the table as it was.
C4_Original ==
  (/\ req.op = "update"
   /\ req.id \notin Ids(before)
   /\ ~TitleBad(req.data) /\ ~DateBad(req.data) /\ ~NotesBad(req.data))
  => /\ resp.status = 404
     /\ resp.error = ErrNotFound
     /\ events = before

\* C4 amended: an update of an id that names no row, which carries at least
\* one of title, date, location and notes and whose present fields are all
\* valid, is answered NotFound; a request that carries none of them is
\* answered "No fields to update"; in both cases the table is as it was.
C4_UnknownIdNotFound ==
  (/\ req.op = "update"
   /\ req.id \notin Ids(before)
   /\ ~TitleBad(req.data) /\ ~DateBad(req.data) /\ ~NotesBad(req.data))
  => /\ events = before
     /\ IF DOMAIN req.data # {}
        THEN resp.status = 404 /\ resp.error = ErrNotFound
        ELSE resp.status = 400 /\ resp.error = ErrNoFields

\* a valid update of an id that names no row while the table holds a row
C4_Witness ==
  /\ req.op = "update"
  /\ req.id \notin Ids(before)
  /\ before # {}
  /\ {"title", "date"} \subseteq DOMAIN req.data
  /\ ~TitleBad(req.data) /\ ~DateBad(req.data) /\ ~NotesBad(req.data)
  /\ resp.status = 404

\* C5: a delete of a stored id answers with the row as it was stored and
\* removes that row only; a delete or a get of the same id made next is
\* answered NotFound and leaves the table as it is.
C5_DeleteReturnsAndRemoves ==
  (req.op = "delete" /\ req.id \in Ids(before)) =>
    /\ resp.status = 200
    /\ Len(resp.body) = 1
    /\ resp.body[1] \in before /\ resp.body[1].id = req.id
    /\ events = before \ {resp.body[1]}
    /\ delete_event(events, req.id).resp.status = 404
    /\ delete_event(events, req.id).events = events
    /\ get_event(events, req.id).status = 404

\* a delete of one of two stored events
C5_Witness ==
  /\ req.op = "delete"
  /\ resp.status = 200
  /\ Cardinality(before) = 2
  /\ Cardinality(events) = 1

\* the row of the table with this id
RowWithId(rows, id) == CHOOSE r \in rows : r.id = id

\* C6: a successful update changes, of title, date, location and notes,
\* only the fields its request carries; the id and created_at of every row
\* survive any update; every other row stays as it was.
C6_UpdateFrame ==
  req.op = "update" =>
    /\ {<<r.id, r.created_at>> : r \in events} = {<<r.id, r.created_at>> : r \in before}
    /\ Cardinality(events) = Cardinality(before)
    /\ {r \in events : r.id # req.id} = {r \in before : r.id # req.id}
    /\ resp.status = 200 =>
         /\ req.id \in Ids(before)
         /\ resp.body = <<RowWithId(events, req.id)>>
         /\ \A f \in {"title", "date", "location", "notes"} \ DOMAIN req.data :
              RowWithId(events, req.id)[f] = RowWithId(before, req.id)[f]

\* an update of the title alone, on a later day than the row was created,
\* of a row that has a location and notes, next to another row
C6_Witness ==
  /\ req.op = "update"
  /\ resp.status = 200
  /\ DOMAIN req.data = {"title"}
  /\ Cardinality(before) = 2
  /\ events # before
  /\ RowWithId(before, req.id).location # <<>>
  /\ RowWithId(before, req.id).notes # <<>>
  /\ RowWithId(before, req.id).created_at # Strftime(today)

\* text is a date in the form YYYY-MM-DD
IsCanonical(s) ==
  /\ Len(s) = 10
  /\ s[5] = "-" /\ s[8] = "-"
  /\ \A i \in {1, 2, 3, 4, 6, 7, 9, 10} : s[i] \in Digits

\* the day/month/year text raw and the canonical text canon name the same day
SameDay(raw, canon) ==
  LET parts == SplitSlash(raw)
  IN  /\ Len(parts) = 3
      /\ Number(parts[1]) = CanonToDate(canon).d
      /\ Number(parts[2]) = CanonToDate(canon).m
      /\ Number(parts[3]) = CanonToDate(canon).y

\* C7: a successful create answers with the row it stored: a new id, the
\* title as supplied, the supplied day in the form YYYY-MM-DD, and location
\* and notes as supplied or empty when omitted; a get of that id made next
\* answers with the same row.
C7_CreateRoundTrip ==
  (req.op = "create" /\ resp.status = 200) =>
    /\ Len(resp.body) = 1
    /\ LET row == resp.body[1]
       IN  /\ row.id \notin Ids(before)
           /\ row.title = req.data["title"]
           /\ IsCanonical(row.date) /\ SameDay(req.data["date"], row.date)
           /\ row.location = (IF "location" \in DOMAIN req.data THEN req.data["location"] ELSE <<>>)
           /\ row.notes = (IF "notes" \in DOMAIN req.data THEN req.data["notes"] ELSE <<>>)
           /\ events = before \cup {row}
           /\ get_event(events, row.id) = Response(200, "", <<row>>)

\* a create without location and notes, added to a table that holds a row
C7_Witness ==
  /\ req.op = "create"
  /\ resp.status = 200
  /\ DOMAIN req.data = {"title", "date"}
  /\ before # {}

CreateTitleBad(data) == ~validate_title(Get(data, "title")).ok

CreateDateBad(data) == ~validate_date(Get(data, "date"), today).ok

TitleErrors == {ErrTitleShort, ErrTitleLetter}

DateErrors == {ErrPastDate, ErrDateFormat}

\* the order of create's checks for the body of the request
CreateChecksInOrder ==
  /\ CreateTitleBad(req.data) => resp.status = 400 /\ resp.error \in TitleErrors
  /\ (~CreateTitleBad(req.data) /\ CreateDateBad(req.data)) =>
       resp.status = 400 /\ resp.error \in DateErrors
  /\ resp.error = ErrNotesLong =>
       ~CreateTitleBad(req.data) /\ ~CreateDateBad(req.data) /\ NotesBad(req.data)
  /\ (~CreateTitleBad(req.data) /\ ~CreateDateBad(req.data) /\ NotesBad(req.data)) =>
       resp.status = 400 /\ resp.error = ErrNotesLong
  /\ resp.status # 200 => events = before /\ Ids(events) = Ids(before)

\* C8 as stated: create answers with the title error whenever the title is
\* invalid, with the date error when the title is valid and the date is not,
\* with the notes error only when title and date are valid; a failing
\* create inserts nothing.
C8_Original == req.op = "create" => CreateChecksInOrder

\* C8 amended: the same for every request body that carries at least one
\* key; a body without any key is answered "No data provided" before any
\* field is validated, and inserts nothing.
C8_CreateValidationOrder ==
  req.op = "create" =>
    IF DOMAIN req.data # {} THEN CreateChecksInOrder
    ELSE resp.status = 400 /\ resp.error = ErrNoData /\ events = before

\* a create whose title, date and notes are all invalid
C8_Witness ==
  /\ req.op = "create"
  /\ TitleBad(req.data) /\ DateBad(req.data) /\ NotesBad(req.data)
  /\ resp.error \in TitleErrors

C10_ListMonthFilter ==
  req.op = "list" =>
    LET hasPrefix(r) == \A k \in 1..Len(req.month) : r.date[k] = req.month[k]
        expected == {r \in before : ~IsPast(r) /\ hasPrefix(r)}
    IN  /\ BodyRows = expected
        /\ Len(resp.body) = Cardinality(expected)

\* a list call for July while the table holds a current June event too
C10_Witness ==
  /\ req.op = "list"
  /\ req.month = MonthJul
  /\ Len(resp.body) >= 1
  /\ \E r \in before : ~IsPast(r) /\ r \notin BodyRows

\* the length of s without its leading and trailing whitespace
TrimmedLen(s) ==
  LET solid == {i \in 1..Len(s) : s[i] \notin Whitespace}
  IN  IF solid = {} THEN 0
      ELSE (CHOOSE i \in solid : \A j \in solid : j <= i)
           - (CHOOSE i \in solid : \A j \in solid : i <= j) + 1

HasLetter(s) == \E i \in 1..Len(s) : s[i] \in Letters

\* the number of words of s: the places where a run of non-whitespace begins
Words(s) ==
  Cardinality({i \in 1..Len(s) :
                 s[i] \notin Whitespace /\ (i = 1 \/ s[i - 1] \in Whitespace)})

\* C11: every stored event has a title of trimmed length 5 or more with a
\* letter in it, and notes of 23 words or fewer, whatever creates and updates
\* (also updates without title or notes) have been made.
C11_StoredTitleNotesValid ==
  \A r \in events :
    /\ TrimmedLen(r.title) >= 5
    /\ HasLetter(r.title)
    /\ Words(r.notes) <= 23

\* a successful update without title and notes of a row that has notes
C11_Witness ==
  /\ req.op = "update"
  /\ resp.status = 200
  /\ DOMAIN req.data \cap {"title", "notes"} = {}
  /\ resp.body[1].notes # <<>>

\* s is the canonical text of a day of the calendar
IsRealDay(s) ==
  /\ IsCanonical(s)
  /\ LET day == CanonToDate(s)
     IN  /\ day.y >= 1
         /\ day.m \in 1..12
         /\ day.d \in 1..DaysInMonth(day.y, day.m)

\* the request carries a day of the calendar that is before the current day
CarriesPastDate(data) ==
  /\ "date" \in DOMAIN data
  /\ LET day == Strptime(data["date"])
     IN  day # NoDate /\ DateLess(day, today)

\* C12: every stored date is the canonical text of a real day; a create or
\* an update with a date that succeeds stores a date on or after the current
\* day; a create or update that carries a day before the current day is
\* rejected and leaves the table as it was.
C12_StoredDatesValid ==
  /\ \A r \in events : IsRealDay(r.date)
  /\ (req.op \in {"create", "update"} /\ "date" \in DOMAIN req.data) =>
       /\ resp.status = 200 => ~IsPast(resp.body[1])
       /\ CarriesPastDate(req.data) => resp.status = 400 /\ events = before

\* an update to a past day of a row whose stored day is still to come
C12_Witness ==
  /\ req.op = "update"
  /\ req.id \in Ids(before)
  /\ CarriesPastDate(req.data)
  /\ ~TitleBad(req.data)
  /\ DateLess(today, CanonToDate(RowWithId(before, req.id).date))
  /\ resp.status = 400

\* C13: an id that appears in the table during an exchange was never in the
\* table before and is greater than every id the table has held, also the
\* ids of rows deleted or purged since.
C13_IdsNeverReused ==
  ~Idle =>
    \A id \in Ids(events) \ Ids(before) :
      /\ id \notin assigned
      /\ \A a \in assigned \cup Ids(before) : a < id

\* a create after an earlier row has been removed
C13_Witness ==
  /\ req.op = "create"
  /\ resp.status = 200
  /\ \E a \in assigned : a \notin Ids(before)

\* C20: the purge of list and cleanup removes exactly the rows dated before
\* the current day; an unfiltered list returns exactly the rows dated on or
\* after it; a row dated on or after the current day leaves the table only
\* by a delete or an update of its id; a row whose date is accepted today is
\* returned by a list made today.
C20_DayBoundariesAgree ==
  /\ req.op \in {"list", "cleanup"} => events = {r \in before : ~IsPast(r)}
  /\ (req.op = "list" /\ req.month = <<>>) => BodyRows = {r \in before : ~IsPast(r)}
  /\ ~Idle =>
       \A r \in before :
         (~IsPast(r) /\ ~(req.op \in {"delete", "update"} /\ req.id = r.id)) => r \in events
  /\ (req.op \in {"create", "update"} /\ "date" \in DOMAIN req.data /\ resp.status = 200) =>
       \A out \in get_events(events, today, <<>>) :
         /\ resp.body[1] \in out.events
         /\ \E i \in 1..Len(out.resp.body) : out.resp.body[i] = resp.body[1]

\* an unfiltered list that returns a row dated today, created on an earlier
\* day, and drops a row dated yesterday
C20_Witness ==
  /\ req.op = "list"
  /\ req.month = <<>>
  /\ \E r \in BodyRows : r.date = Strftime(today) /\ r.created_at # Strftime(today)
  /\ \E r \in before : IsPast(r)

(***************************************************************************)
(* The validators on their own: a call is drawn with the current day, and  *)
(* the validator answers it.                                               *)
(***************************************************************************)
TitleInputs ==
  {TitleLunch, TitleDemo, TitlePadded, TitleDigits, <<>>,
   <<" ", " ", "L", "u", "n", "c", "h", " ">>,
   <<"\t", "L", "u", "n", "c", "h", "\n">>,
   <<"a", "1", "2", "3", "4">>,
   <<"1", "2", "3", "4", " ">>,
   <<" ", " ", " ", " ", " ">>,
   <<"a", "b", "c", "d">>,
   <<" ", "1", "2", "3", "4", "5", " ">>,
   <<"a", "b", " ", "c", "d">>,
   <<" ", "a", "b", "c", "d", " ", " ">>}

DateInputs ==
  {DateJun29, DateJun30, DateJun31, DateJul01, DateJul1, <<>>,
   <<"1", "4", "/", "0", "6", "/", "2", "0", "2", "5">>,
   <<"1", "5", "/", "0", "6", "/", "2", "0", "2", "5">>,
   <<"2", "9", "/", "0", "2", "/", "2", "0", "2", "4">>,
   <<"2", "9", "/", "0", "2", "/", "2", "0", "2", "5">>,
   <<"3", "1", "/", "0", "4", "/", "2", "0", "2", "5">>,
   <<"3", "1", "/", "0", "4", "/", "2", "0", "2", "6">>,
   <<"3", "0", "/", "6", "/", "2", "0", "2", "5">>,
   <<" ", "1", "/", "0", "7", "/", "2", "0", "2", "5">>,
   <<"0", "1", "/", "0", "7", "/", "2", "5">>,
   <<"0", "1", "/", "0", "7", "/", "2", "0", "2", "5", " ">>,
   <<"0", "0", "/", "0", "7", "/", "2", "0", "2", "5">>,
   <<"0", "1", "/", "1", "3", "/", "2", "0", "2", "5">>,
   <<"0", "1", "/", "0", "1", "/", "2", "0", "2", "6">>,
   <<"0", "1", "-", "0", "7", "-", "2", "0", "2", "5">>,
   <<"2", "0", "2", "5", "-", "0", "7", "-", "0", "1">>,
   <<"0", "1", "/", "0", "7">>}

NotesInputs ==
  {<<>>, <<" ">>, <<" ", "\t", "\n">>, <<"w">>, NotesTwo, NotesTooMany,
   Repeat(<<"w", " ">>, MaxNotesWords),
   Repeat(<<"w", " ">>, MaxNotesWords - 1) \o <<"w">>,
   <<" ", "\n">> \o Repeat(<<"w", "o", " ", " ">>, MaxNotesWords),
   Repeat(<<"w", "\t", "\n">>, MaxNotesWords + 1),
   Repeat(<<" ", "w", "o">>, MaxNotesWords + 1),
   Repeat(<<"w", " ">>, MaxNotesWords + 2)}

DayInputs ==
  {StartDay, NextDay(StartDay), [y |-> 2025, m |-> 6, d |-> 15], [y |-> 2024, m |-> 2, d |-> 29]}

ValidatorCalls ==
  {Request("validate_title", 0, [title |-> t], <<>>) : t \in TitleInputs}
  \cup {Request("validate_date", 0, [date |-> d], <<>>) : d \in DateInputs}
  \cup {Request("validate_notes", 0, [notes |-> n], <<>>) : n \in NotesInputs}

InitV ==
  /\ events = {}
  /\ seq = 0
  /\ before = {}
  /\ assigned = {}
  /\ procs = <<>>
  /\ today \in DayInputs
  /\ req \in ValidatorCalls
  /\ resp = NoResponse

ValidateTitle ==
  /\ req.op = "validate_title"
  /\ resp = NoResponse
  /\ resp' = validate_title(req.data["title"])
  /\ UNCHANGED <<events, seq, today, req, before, assigned, procs>>

ValidateDate ==
  /\ req.op = "validate_date"
  /\ resp = NoResponse
  /\ resp' = validate_date(req.data["date"], today)
  /\ UNCHANGED <<events, seq, today, req, before, assigned, procs>>

ValidateNotes ==
  /\ req.op = "validate_notes"
  /\ resp = NoResponse
  /\ resp' = validate_notes(req.data["notes"])
  /\ UNCHANGED <<events, seq, today, req, before, assigned, procs>>

NextV ==
  \/ ValidateTitle
  \/ ValidateDate
  \/ ValidateNotes

SpecV == InitV /\ [][NextV]_vars

\* the validator has answered the call
Answered(op) == req.op = op /\ resp # NoResponse

\* s is a real day written as two digits, "/", two digits, "/", four digits
IsDDMMYYYY(s) ==
  /\ Len(s) = 10
  /\ s[3] = "/" /\ s[6] = "/"
  /\ \A i \in {1, 2, 4, 5, 7, 8, 9, 10} : s[i] \in Digits
  /\ Number(SubSeq(s, 7, 10)) >= 1
  /\ Number(SubSeq(s, 4, 5)) \in 1..12
  /\ Number(SubSeq(s, 1, 2)) \in 1..DaysInMonth(Number(SubSeq(s, 7, 10)), Number(SubSeq(s, 4, 5)))

\* C14: validate_date fails with the format error exactly for the texts that
\* are not a real day written DD/MM/YYYY; of the others it fails with the
\* past-date error exactly for the days before the current day, and answers
\* the rest (the current day too) with the same day written YYYY-MM-DD.
C14_ValidateDate ==
  Answered("validate_date") =>
    LET raw == req.data["date"]
        day == [y |-> Number(SubSeq(raw, 7, 10)), m |-> Number(SubSeq(raw, 4, 5)),
                d |-> Number(SubSeq(raw, 1, 2))]
    IN  IF ~IsDDMMYYYY(raw) THEN ~resp.ok /\ resp.val = ErrDateFormat
        ELSE IF DateLess(day, today) THEN ~resp.ok /\ resp.val = ErrPastDate
        ELSE resp.ok /\ IsCanonical(resp.val) /\ CanonToDate(resp.val) = day

\* C15: validate_title fails exactly for the titles whose length without
\* leading and trailing whitespace is below 5 or that hold no letter.
C15_ValidateTitle ==
  Answered("validate_title") =>
    (resp.ok <=> (TrimmedLen(req.data["title"]) >= 5 /\ HasLetter(req.data["title"])))

\* a title of five characters, three without its trailing blanks, refused
C15_Witness ==
  /\ Answered("validate_title")
  /\ req.data["title"] = TitlePadded
  /\ ~resp.ok

\* C16: validate_notes succeeds exactly for the notes of 23 words or fewer,
\* words being the runs of non-whitespace; a failure is the notes error.
C16_ValidateNotes ==
  Answered("validate_notes") =>
    /\ resp.ok <=> Words(req.data["notes"]) <= 23
    /\ ~resp.ok => resp.val = ErrNotesLong

\* notes of exactly 23 words between irregular whitespace, accepted
C16_Witness ==
  /\ Answered("validate_notes")
  /\ Words(req.data["notes"]) = 23
  /\ Len(req.data["notes"]) > 2 * 23
  /\ resp.ok

(***************************************************************************)
(* Concurrent requests.  Each handler runs on a connection of its own; a   *)
(* step is one statement on the database (with its commit), which the      *)
(* database runs one at a time.  procs[p] is the handler of request p:     *)
(* its position pc, the row it has selected, the number of rows its write  *)
(* matched, the rank of its write among the writes, and its response.      *)
(***************************************************************************)
TitleOther == <<"O", "t", "h", "e", "r">>

\* the table the concurrent requests find: two events created on the first day
ConcTable ==
  LET one == add_event({}, 0, StartDay, MkData(TitleLunch, DateJun30, Absent, Absent))
  IN  add_event(one.events, one.seq, StartDay, MkData(TitleLunch, DateJul1, LocHall, NotesTwo)).events

Proc(op, id, data) ==
  [op |-> op, id |-> id, data |-> data, pc |-> "start", row |-> <<>>,
   matched |-> 0, stamp |-> 0, resp |-> NoResponse]

ConcRequests ==
  {Proc("update", 1, d) :
     d \in {MkData(TitleDemo, Absent, Absent, NotesTwo),
            MkData(TitleOther, DateJul01, LocHall, Absent),
            MkData(TitleDigits, Absent, LocHall, Absent)}}
  \cup {Proc("update", 2, MkData(TitleDemo, Absent, Absent, Absent)),
        Proc("delete", 1, NoData), Proc("delete", 2, NoData), Proc("get", 1, NoData)}

InitC ==
  /\ events = ConcTable
  /\ seq = 2
  /\ today = StartDay
  /\ req = NoRequest
  /\ resp = NoResponse
  /\ before = {}
  /\ assigned = {}
  /\ procs \in [1..NProcs -> ConcRequests]

\* the number of writes committed so far
Writes == Cardinality({p \in DOMAIN procs : procs[p].stamp > 0})

\* update_event up to db.commit(): validation, then the UPDATE statement
UpdateWrite(p) ==
  /\ procs[p].op = "update" /\ procs[p].pc = "start"
  /\ LET out == update_event(events, today, procs[p].id, procs[p].data)
     IN  IF out.resp.status = 400
         THEN /\ procs' = [procs EXCEPT ![p].pc = "done", ![p].resp = out.resp]
              /\ UNCHANGED events
         ELSE /\ events' = out.events
              /\ procs' = [procs EXCEPT ![p].pc = "written",
                                        ![p].matched = Cardinality(SelectById(events, procs[p].id)),
                                        ![p].stamp = Writes + 1]
  /\ UNCHANGED <<seq, today, req, resp, before, assigned>>

\* update_event after db.commit(): the SELECT that reads the row back
UpdateRead(p) ==
  /\ procs[p].op = "update" /\ procs[p].pc = "written"
  /\ procs' = [procs EXCEPT ![p].pc = "done", ![p].resp = get_event(events, procs[p].id)]
  /\ UNCHANGED <<events, seq, today, req, resp, before, assigned>>

\* delete_event: the SELECT of the row to return
DeleteSelect(p) ==
  /\ procs[p].op = "delete" /\ procs[p].pc = "start"
  /\ LET row == SelectById(events, procs[p].id)
     IN  procs' = IF row = {}
                  THEN [procs EXCEPT ![p].pc = "done", ![p].resp = Response(404, ErrNotFound, <<>>)]
                  ELSE [procs EXCEPT ![p].pc = "selected", ![p].row = <<FetchOne(row)>>]
  /\ UNCHANGED <<events, seq, today, req, resp, before, assigned>>

\* delete_event: the DELETE statement and the response with the selected row
DeleteExec(p) ==
  /\ procs[p].op = "delete" /\ procs[p].pc = "selected"
  /\ events' = {r \in events : r.id # procs[p].id}
  /\ procs' = [procs EXCEPT ![p].pc = "done",
                            ![p].matched = Cardinality(SelectById(events, procs[p].id)),
                            ![p].stamp = Writes + 1,
                            ![p].resp = Response(200, "", procs[p].row)]
  /\ UNCHANGED <<seq, today, req, resp, before, assigned>>

\* get_event: its one SELECT
GetRead(p) ==
  /\ procs[p].op = "get" /\ procs[p].pc = "start"
  /\ procs' = [procs EXCEPT ![p].pc = "done", ![p].resp = get_event(events, procs[p].id)]
  /\ UNCHANGED <<events, seq, today, req, resp, before, assigned>>

NextC ==
  \/ \E p \in DOMAIN procs : UpdateWrite(p)
  \/ \E p \in DOMAIN procs : UpdateRead(p)
  \/ \E p \in DOMAIN procs : DeleteSelect(p)
  \/ \E p \in DOMAIN procs : DeleteExec(p)
  \/ \E p \in DOMAIN procs : GetRead(p)

SpecC == InitC /\ [][NextC]_vars

\* v is the value the request body supplies for column f (the date canonical)
Supplied(data, f, v) ==
  IF f = "date" THEN IsCanonical(v) /\ SameDay(data["date"], v) ELSE v = data[f]

\* row x is row r with every field of the body written and nothing else changed
Applied(r, x, data) ==
  /\ x.id = r.id
  /\ x.created_at = r.created_at
  /\ \A f \in {"title", "date", "location", "notes"} :
       IF f \in DOMAIN data THEN Supplied(data, f, x[f]) ELSE x[f] = r[f]

\* a row changes only by the write of one update, which applies all its fields
C17_WritesWhole ==
  /\ Ids(events') \subseteq Ids(events)
  /\ \A r \in events :
       LET after == {x \in events' : x.id = r.id}
       IN  (after # {} /\ after # {r}) =>
             \E p \in DOMAIN procs :
               /\ procs[p].op = "update" /\ procs[p].id = r.id
               /\ procs[p].pc = "start" /\ procs'[p].pc = "written"
               /\ \A x \in after : Applied(r, x, procs[p].data)

\* a get and the read-back of an update return a row as the table holds it
C17_ReadsCommitted ==
  \A p \in DOMAIN procs :
    (/\ procs[p].op \in {"get", "update"}
     /\ procs'[p].resp # procs[p].resp
     /\ procs'[p].resp.status = 200)
    => procs'[p].resp.body[1] \in events

\* each field of a row that updates have written holds the value of the last of them
C17_LastWriteWins ==
  \A r \in events : \A f \in {"title", "date", "location", "notes"} :
    LET W == {p \in DOMAIN procs :
                /\ procs[p].op = "update" /\ procs[p].id = r.id
                /\ procs[p].stamp > 0 /\ f \in DOMAIN procs[p].data}
    IN  W # {} =>
          LET last == CHOOSE p \in W : \A q \in W : procs[q].stamp <= procs[p].stamp
          IN  Supplied(procs[last].data, f, r[f])

\* C17: under every interleaving of concurrent requests an update's fields
\* are written in one step, readers see rows only as the table holds them
\* between such steps, and a field written by several updates holds the
\* value of the update that wrote last.
C17_AtomicUpdates ==
  /\ [][C17_WritesWhole /\ C17_ReadsCommitted]_vars
  /\ []C17_LastWriteWins

\* two updates of event 1 with different titles have both written, and a
\* get that ran between them has returned the title of the first
C17_Witness ==
  \E p, q, g \in DOMAIN procs :
    /\ procs[p].op = "update" /\ procs[q].op = "update" /\ procs[g].op = "get"
    /\ procs[p].id = 1 /\ procs[q].id = 1
    /\ procs[p].stamp = 1 /\ procs[q].stamp = 2
    /\ procs[p].data["title"] # procs[q].data["title"]
    /\ procs[p].pc = "done" /\ procs[q].pc = "done" /\ procs[g].pc = "done"
    /\ procs[g].resp.status = 200
    /\ procs[g].resp.body[1].title = procs[p].data["title"]
    /\ \E r \in events : r.id = 1 /\ r.title = procs[q].data["title"]

\* C18: of the concurrent deletes of one id at most one answers with the
\* deleted row; the others answer NotFound.
C18_OneDeleteSucceeds ==
  \A p, q \in DOMAIN procs :
    (/\ p # q
     /\ procs[p].op = "delete" /\ procs[q].op = "delete"
     /\ procs[p].id = procs[q].id
     /\ procs[p].pc = "done" /\ procs[q].pc = "done"
     /\ procs[p].resp.status = 200)
    => procs[q].resp.status = 404

\* C19: a successful update answers with the row its own write produced,
\* every supplied field holding the supplied value, and an update answers
\* NotFound only when its write matched no row.
C19_UpdateReturnsOwnWrite ==
  \A p \in DOMAIN procs :
    (procs[p].op = "update" /\ procs[p].pc = "done") =>
      /\ procs[p].resp.status = 200 =>
           \A f \in DOMAIN procs[p].data : Supplied(procs[p].data, f, procs[p].resp.body[1][f])
      /\ procs[p].resp.status = 404 => procs[p].matched = 0

====
